---- MODULE Spec2Model ----
(***************************************************************************)
(* Model of icinga-service-checks/twowaymail.py: the Twowaymail resource   *)
(* (send, checkrecv, probe), the two IMAP mailboxes it scans and the mail  *)
(* in flight between the two endpoints.                                    *)
(*                                                                         *)
(* A run is one invocation of probe().  Time is in seconds.  A header      *)
(* value is text: a host name is a string, the X-TWM-Unixtime value is a   *)
(* sequence of characters (decimal digits, or a non-numeric character).    *)
(* A message is UTF-8 text or it is not.                                   *)
(* The library calls (SMTP, IMAP4) either succeed or raise.                *)
(***************************************************************************)
EXTENDS Integers, Sequences, FiniteSets, TLC

(* ---------------------------- bounds ----------------------------------- *)
\* number of invocations of probe() in a behaviour
MaxRuns == 2
\* number of messages present in a mailbox before a single run (ScanSpec)
MaxMsgs == 2
\* number of messages present in the mailboxes before a series of runs (Spec)
MaxExt == 1
\* number of times the clock advances
MaxTicks == 1

(* ------------------------- program constants --------------------------- *)
\* twowaymail.py:70   "... > 1800"
StaleThreshold == 1800

\* the clock's value before the first run, and the amount of one advance:
\* when the first run starts a message stamped 200 is exactly StaleThreshold
\* old and one stamped 0 is 2000 old; after one advance both, and the probes
\* sent before it, are older than StaleThreshold
StartTime == StaleThreshold + 200
TickStep == StartTime

Endpoints == {1, 2}
Runs == 1..MaxRuns
Other(e) == 3 - e

(* ----------------------------- text ------------------------------------ *)
Digits == <<"0", "1", "2", "3", "4", "5", "6", "7", "8", "9">>
IsDigit(c) == \E d \in 1..10 : Digits[d] = c
DigitVal(c) == (CHOOSE d \in 1..10 : Digits[d] = c) - 1

\* str.format of a number ("{unixtime}"): its decimal digits
RECURSIVE FormatNumber(_)
FormatNumber(n) ==
    IF n < 10 THEN <<Digits[n + 1]>>
    ELSE Append(FormatNumber(n \div 10), Digits[(n % 10) + 1])

\* float(text): the number the digits denote; ValueError on anything else
RECURSIVE DigitsValue(_)
DigitsValue(s) ==
    IF Len(s) = 0 THEN 0
    ELSE 10 * DigitsValue(SubSeq(s, 1, Len(s) - 1)) + DigitVal(s[Len(s)])

Parseable(s) == Len(s) > 0 /\ \A i \in 1..Len(s) : IsDigit(s[i])

\* a host name, as a text of one token
Host(h) == <<h>>

\* header names are matched without regard to case (email.message.Message)
Lower(name) ==
    CASE name = "X-TWM-Sender-Host" -> "x-twm-sender-host"
      [] name = "X-TWM-Unixtime" -> "x-twm-unixtime"
      [] name = "X-TWM-Monitoring-Host" -> "x-twm-monitoring-host"
      [] OTHER -> name

\* 'name' in msg
HasHeader(msg, name) == \E i \in 1..Len(msg.hdrs) : Lower(msg.hdrs[i].name) = name

\* msg[name]: the value of the first header of that name
GetHeader(msg, name) ==
    LET i == CHOOSE j \in 1..Len(msg.hdrs) :
                 /\ Lower(msg.hdrs[j].name) = name
                 /\ \A k \in 1..(j - 1) : Lower(msg.hdrs[k].name) # name
    IN msg.hdrs[i].value

(* ----------------------------- state ----------------------------------- *)
VARIABLES
    conn,       \* conn[e]: endpoint e's configuration (conn1, conn2)
    now,        \* time.time()
    ticks,      \* how often the clock has advanced
    mbox,       \* mbox[e]: the messages in endpoint e's mailbox, in order
    deleted,    \* deleted[e]: uids of the messages flagged \Deleted
    transit,    \* mail accepted by an SMTP server and not yet delivered
    nextUid,    \* the next message identifier
    pc,         \* pc[r]: where run r is
    call,       \* call[r]: which statement of probe() run r is at
    senderhost, \* senderhost[r]: checkrecv's senderhost argument
    nums,       \* nums[r]: the listing imap.search returned
    idx,        \* idx[r]: position of the for loop in nums[r]
    found,      \* found[r]: checkrecv's local variable
    recv,       \* recv[r][k]: recv1, recv2 of probe: <<>> until assigned,
                \* then the one value
    metrics,    \* metrics[r]: what probe() returned
    err,        \* err[r]: the exception that ended run r, "none" if none
    imapOpen,   \* IMAP sessions that are open: <<run, endpoint>>
    trace,      \* trace[r]: the mailbox and mail operations run r completed
    sentlog,    \* sentlog[r]: the messages run r handed to SMTP
    expected,   \* expected[r][k]: the senderhost scan k of run r was given
    listing,    \* listing[r][k]: the messages scan k of run r was given
    examined,   \* examined[r][k]: the messages it fetched, with the time
    flagged,    \* flagged[r][k]: uids it stored \Deleted on
    expunged    \* expunged[r][k]: uids its expunge removed

vars == <<conn, now, ticks, mbox, deleted, transit, nextUid, pc, call,
          senderhost, nums, idx, found, recv, metrics, err, imapOpen, trace,
          sentlog, expected, listing, examined, flagged, expunged>>

\* the variables of the mail system, of a run's control, and of the record
\* kept of what each scan did
mailVars == <<mbox, deleted, transit, nextUid>>
scanVars == <<senderhost, nums, idx, found>>
logVars == <<trace, sentlog, expected, listing, examined, flagged, expunged>>

(* ------------------------- initial state ------------------------------- *)
Hdr(n, v) == [name |-> n, value |-> v]

\* mail found in the mailboxes before the first run: unrelated mail, probes
\* of this and of other pairs, old and new, complete and incomplete
ExtSenders == {Host("h1"), Host("h2")}
ExtTimes == {FormatNumber(0), FormatNumber(200), <<"x">>}

ExtHeaders ==
    {<<>>, <<Hdr("X-TWM-Unixtime", FormatNumber(200))>>}
    \cup {<<Hdr("X-TWM-Sender-Host", s)>> : s \in ExtSenders}
    \cup {<<Hdr("X-TWM-Sender-Host", s), Hdr("X-TWM-Unixtime", u)>> :
             s \in ExtSenders, u \in ExtTimes}

\* ... each of them UTF-8 text, and one message that is not
ExtMail ==
    {[hdrs |-> h, utf8 |-> TRUE] : h \in ExtHeaders}
    \cup {[hdrs |-> <<>>, utf8 |-> FALSE]}

\* a time stamp of a sender whose clock is ahead: later than the scanner's
\* clock in every state
FutureTime == StartTime + MaxTicks * TickStep + 1000

\* probes of senders whose clock is ahead, and probes that are 2000 s old
FutureMail ==
    {[hdrs |-> <<Hdr("X-TWM-Sender-Host", s),
                 Hdr("X-TWM-Unixtime", FormatNumber(u))>>,
      utf8 |-> TRUE] : s \in ExtSenders, u \in {0, FutureTime}}

SeqsUpTo(S, n) == UNION {[1..k -> S] : k \in 0..n}

\* main(): the two connection tuples.  smtp is conn[0], imap is conn[1],
\* addr is conn[2]; the credentials and the TLS flag decide only whether the
\* library calls succeed
Configs ==
    {<<[smtp |-> Host("h1"), imap |-> i1, addr |-> Host("a1")],
       [smtp |-> Host("h2"), imap |-> Host("i2"), addr |-> Host("a2")]>> :
        i1 \in {Host("h1"), Host("i1")}}

NoScan == [k \in Endpoints |-> {}]

\* no run has begun and no message is flagged
InitRuns ==
    /\ deleted = [e \in Endpoints |-> {}]
    /\ pc = [r \in Runs |-> "idle"]
    /\ call = [r \in Runs |-> 1]
    /\ senderhost = [r \in Runs |-> <<>>]
    /\ nums = [r \in Runs |-> <<>>]
    /\ idx = [r \in Runs |-> 1]
    /\ found = [r \in Runs |-> FALSE]
    /\ recv = [r \in Runs |-> [k \in Endpoints |-> <<>>]]
    /\ metrics = [r \in Runs |-> <<>>]
    /\ err = [r \in Runs |-> "none"]
    /\ imapOpen = {}
    /\ trace = [r \in Runs |-> <<>>]
    /\ sentlog = [r \in Runs |-> <<>>]
    /\ expected = [r \in Runs |-> [k \in Endpoints |-> <<>>]]
    /\ listing = [r \in Runs |-> [k \in Endpoints |-> <<>>]]
    /\ examined = [r \in Runs |-> NoScan]
    /\ flagged = [r \in Runs |-> NoScan]
    /\ expunged = [r \in Runs |-> NoScan]

\* the state before the first run, with at most n messages out of mail, in
\* one of the mailboxes or spread over both
InitFrom(mail, n, both) ==
    /\ conn \in Configs
    /\ now = StartTime
    /\ ticks = 0
    /\ \E s1 \in SeqsUpTo(mail, n) :
       \E s2 \in SeqsUpTo(mail, IF both THEN n - Len(s1)
                                 ELSE IF Len(s1) = 0 THEN n ELSE 0) :
          /\ mbox = <<[i \in 1..Len(s1) |->
                          [uid |-> i, hdrs |-> s1[i].hdrs,
                           utf8 |-> s1[i].utf8]],
                      [i \in 1..Len(s2) |->
                          [uid |-> Len(s1) + i, hdrs |-> s2[i].hdrs,
                           utf8 |-> s2[i].utf8]]>>
          /\ nextUid = Len(s1) + Len(s2) + 1
    /\ transit = {}
    /\ InitRuns

InitWith(n, both) == InitFrom(ExtMail, n, both)

Init == InitWith(MaxExt, TRUE)
ScanInit == InitWith(MaxMsgs, FALSE)
FutureInit == InitFrom(FutureMail, MaxMsgs, FALSE)

(* --------------------------- mailboxes --------------------------------- *)
Uids(box) == {box[i].uid : i \in 1..Len(box)}
MsgOf(box, u) == box[CHOOSE i \in 1..Len(box) : box[i].uid = u]

\* (only the first of the flagged messages leaves)
ExpungeFirst(box, del) ==
    LET hit == {i \in 1..Len(box) : box[i].uid \in del}
    IN [i \in 1..(Len(box) - (IF hit = {} THEN 0 ELSE 1)) |->
           IF \E j \in hit : i >= j THEN box[i + 1] ELSE box[i]]

\* (the flags are dropped and no message leaves)
ExpungeNothing(box, del) == box

\* EXPUNGE: every message flagged \Deleted leaves the mailbox
Expunge(box, del) == SelectSeq(box, LAMBDA m : m.uid \notin del)

(* ----------------------------- probe ----------------------------------- *)
\* (the first probe sent before the second mailbox is checked)
ProbeCallsSendEarly ==
    <<[op |-> "checkrecv", c |-> 1],
      [op |-> "send", c |-> 1],
      [op |-> "checkrecv", c |-> 2],
      [op |-> "send", c |-> 2]>>

\* the body of probe(): four calls, then the return
ProbeCalls ==
    <<[op |-> "checkrecv", c |-> 1],
      [op |-> "checkrecv", c |-> 2],
      [op |-> "send", c |-> 1],
      [op |-> "send", c |-> 2]>>

\* the senderhost argument probe() passes to checkrecv(conn_k, ...)
ExpectedSender(k) == IF k = 1 THEN conn[2].smtp ELSE conn[1].imap

\* the to argument probe() passes to send(conn_k, ...)
SendTo(k) == conn[Other(k)].addr

Leg(r) == ProbeCalls[call[r]].c

\* where control is when statement i of probe() begins
EntryPc(i) ==
    IF i > Len(ProbeCalls) THEN "return"
    ELSE IF ProbeCalls[i].op = "checkrecv" THEN "recv_open" ELSE "send"

Active(r) == pc[r] \notin {"idle", "done", "error"}

\* statement i of probe() begins
Enter(r, i) ==
    /\ pc' = [pc EXCEPT ![r] = EntryPc(i)]
    /\ call' = [call EXCEPT ![r] = i]
    /\ senderhost' = [senderhost EXCEPT ![r] =
          IF EntryPc(i) = "recv_open" THEN ExpectedSender(ProbeCalls[i].c)
          ELSE <<>>]

\* the scheduler invokes the check; run r begins probe()
Start(r) ==
    /\ pc[r] = "idle"
    /\ \A q \in Runs : q < r => pc[q] \in {"done", "error"}
    /\ Enter(r, 1)
    /\ UNCHANGED <<conn, now, ticks, mailVars, nums, idx, found, recv,
                   metrics, err, imapOpen, logVars>>

\* an exception leaves probe(): the run ends without a result, and the
\* locals of the call that raised are gone
Raise(r, e) ==
    /\ pc' = [pc EXCEPT ![r] = "error"]
    /\ err' = [err EXCEPT ![r] = e]
    /\ nums' = [nums EXCEPT ![r] = <<>>]
    /\ idx' = [idx EXCEPT ![r] = 1]
    /\ found' = [found EXCEPT ![r] = FALSE]
    /\ senderhost' = [senderhost EXCEPT ![r] = <<>>]
    /\ UNCHANGED call

(* --------------------------- checkrecv --------------------------------- *)
\* IMAP4(), starttls, login, select, search 'ALL'; found = False
RecvOpen(r) ==
    /\ pc[r] = "recv_open"
    /\ imapOpen' = imapOpen \cup {<<r, Leg(r)>>}
    /\ nums' = [nums EXCEPT ![r] =
                   [i \in 1..Len(mbox[Leg(r)]) |-> mbox[Leg(r)][i].uid]]
    /\ idx' = [idx EXCEPT ![r] = 1]
    /\ found' = [found EXCEPT ![r] = FALSE]
    /\ listing' = [listing EXCEPT ![r][Leg(r)] = mbox[Leg(r)]]
    /\ expected' = [expected EXCEPT ![r][Leg(r)] = senderhost[r]]
    /\ trace' = [trace EXCEPT ![r] = Append(@, <<"search", Leg(r)>>)]
    /\ pc' = [pc EXCEPT ![r] = "recv_loop"]
    /\ UNCHANGED <<conn, now, ticks, mailVars, call, senderhost, recv,
                   metrics, err, sentlog, examined, flagged, expunged>>

\* one of them raises: the connection is refused (no session), or the
\* session is open and starttls, login, select or search fails
RecvOpenFail(r) ==
    /\ pc[r] = "recv_open"
    /\ \E opened \in BOOLEAN :
          imapOpen' = IF opened THEN imapOpen \cup {<<r, Leg(r)>>}
                      ELSE imapOpen
    /\ Raise(r, "IMAP4.error")
    /\ UNCHANGED <<conn, now, ticks, mailVars, recv, metrics, logVars>>

\* (the comparison with senderhost left out)
SenderMismatchNoCompare(msg, senderhost_) ==
    ~HasHeader(msg, "x-twm-sender-host")

\* ("or" written "and": only a header naming another sender is skipped)
SenderMismatchAnd(msg, senderhost_) ==
    /\ HasHeader(msg, "x-twm-sender-host")
    /\ GetHeader(msg, "x-twm-sender-host") # senderhost_

\* (a message without the unixtime header skipped as well)
SenderMismatchOrNoTime(msg, senderhost_) ==
    \/ ~HasHeader(msg, "x-twm-sender-host")
    \/ ~HasHeader(msg, "x-twm-unixtime")
    \/ GetHeader(msg, "x-twm-sender-host") # senderhost_

\* the first test of the loop body
SenderMismatch(msg, senderhost_) ==
    \/ ~HasHeader(msg, "x-twm-sender-host")
    \/ GetHeader(msg, "x-twm-sender-host") # senderhost_

\* the second test of the loop body, left of the "or"
NoUnixtime(msg) == ~HasHeader(msg, "x-twm-unixtime")

\* (the comparison written "<")
TooOldInverted(age) == age < StaleThreshold

\* (the comparison written ">=")
TooOldAtThreshold(age) == age >= StaleThreshold

\* (a lower bound added: a time stamp of the future is too old as well)
TooOldOrFuture(age) == age > StaleThreshold \/ age < 0

\* ... and right of it, once float() has returned
TooOld(age) == age > StaleThreshold

\* (a break after the first match)
NextIdxBreak(i, n, matched) == IF matched THEN n + 1 ELSE i + 1

\* the for loop goes on to the next num, whatever the pass has found
NextIdx(i, n, matched) == i + 1

\* (the expunge moved into the loop body)
LoopDoneAny(i, n) == TRUE

\* the for loop is exhausted
LoopDone(i, n) == i > n

InLoop(r) == pc[r] = "recv_loop" /\ idx[r] <= Len(nums[r])
Num(r) == nums[r][idx[r]]

\* the message is in the mailbox; it is not when another session has
\* expunged it since this one listed the mailbox
Present(r) == Num(r) \in Uids(mbox[Leg(r)])

\* msg: the message as the mailbox holds it or, when another session has
\* expunged it, as the server still serves it to this session
Fetched(r) ==
    IF Present(r) THEN MsgOf(mbox[Leg(r)], Num(r))
    ELSE MsgOf(listing[r][Leg(r)], Num(r))

\* what one pass of the loop body does with the fetched message:
\* data[0][1].decode("utf-8") raises UnicodeDecodeError, or ...
DecodeFails(r) == ~Fetched(r).utf8
Skips(r) == ~DecodeFails(r) /\ SenderMismatch(Fetched(r), senderhost[r])
ParseFails(r) ==
    /\ ~DecodeFails(r)
    /\ ~Skips(r)
    /\ ~NoUnixtime(Fetched(r))
    /\ ~Parseable(GetHeader(Fetched(r), "x-twm-unixtime"))
Stale(r) ==
    /\ ~DecodeFails(r)
    /\ ~Skips(r)
    /\ \/ NoUnixtime(Fetched(r))
       \/ /\ Parseable(GetHeader(Fetched(r), "x-twm-unixtime"))
          /\ TooOld(now - DigitsValue(GetHeader(Fetched(r), "x-twm-unixtime")))
Matches(r) == ~DecodeFails(r) /\ ~Skips(r) /\ ~ParseFails(r) /\ ~Stale(r)

\* one pass of the for loop: fetch, classify, store; the store has no effect
\* on a message that is no longer in the mailbox
Examine(r) ==
    /\ InLoop(r)
    /\ examined' = [examined EXCEPT ![r][Leg(r)] =
                       @ \cup {[msg |-> Fetched(r), at |-> now]}]
    /\ IF DecodeFails(r)
       THEN /\ Raise(r, "UnicodeDecodeError")
            /\ UNCHANGED <<deleted, flagged>>
       ELSE IF Skips(r)
       THEN /\ idx' = [idx EXCEPT ![r] = NextIdx(@, Len(nums[r]), FALSE)]
            /\ UNCHANGED <<found, deleted, flagged, pc, err, nums,
                           senderhost, call>>
       ELSE IF ParseFails(r)
       THEN /\ Raise(r, "ValueError")
            /\ UNCHANGED <<deleted, flagged>>
       ELSE /\ found' = [found EXCEPT ![r] = IF Stale(r) THEN @ ELSE TRUE]
            /\ deleted' = [deleted EXCEPT ![Leg(r)] =
                              IF Present(r) THEN @ \cup {Num(r)} ELSE @]
            /\ flagged' = [flagged EXCEPT ![r][Leg(r)] =
                              IF Present(r) THEN @ \cup {Num(r)} ELSE @]
            /\ idx' = [idx EXCEPT ![r] =
                          NextIdx(@, Len(nums[r]), Matches(r))]
            /\ UNCHANGED <<pc, err, nums, senderhost, call>>
    /\ UNCHANGED <<conn, now, ticks, mbox, transit, nextUid, recv, metrics,
                   imapOpen, trace, sentlog, expected, listing, expunged>>

\* imap.fetch raises
FetchFail(r) ==
    /\ InLoop(r)
    /\ Raise(r, "IMAP4.error")
    /\ UNCHANGED <<conn, now, ticks, mailVars, recv, metrics, imapOpen,
                   logVars>>

\* imap.store raises: the message was fetched and classified, not flagged
StoreFail(r) ==
    /\ InLoop(r)
    /\ Num(r) \in Uids(mbox[Leg(r)])
    /\ ~DecodeFails(r)
    /\ ~Skips(r)
    /\ ~ParseFails(r)
    /\ examined' = [examined EXCEPT ![r][Leg(r)] =
                       @ \cup {[msg |-> Fetched(r), at |-> now]}]
    /\ Raise(r, "IMAP4.error")
    /\ UNCHANGED <<conn, now, ticks, mailVars, recv, metrics, imapOpen,
                   trace, sentlog, expected, listing, flagged, expunged>>

\* imap.expunge() after the loop
RecvExpunge(r) ==
    /\ pc[r] = "recv_loop"
    /\ LoopDone(idx[r], Len(nums[r]))
    /\ mbox' = [mbox EXCEPT ![Leg(r)] = Expunge(@, deleted[Leg(r)])]
    /\ expunged' = [expunged EXCEPT ![r][Leg(r)] =
                       Uids(mbox[Leg(r)])
                          \ Uids(Expunge(mbox[Leg(r)], deleted[Leg(r)]))]
    /\ deleted' = [deleted EXCEPT ![Leg(r)] = {}]
    /\ trace' = [trace EXCEPT ![r] = Append(@, <<"expunge", Leg(r)>>)]
    /\ pc' = [pc EXCEPT ![r] = "recv_shutdown"]
    /\ UNCHANGED <<conn, now, ticks, transit, nextUid, call, scanVars, recv,
                   metrics, err, imapOpen, sentlog, expected, listing,
                   examined, flagged>>

\* imap.expunge() raises
ExpungeFail(r) ==
    /\ pc[r] = "recv_loop"
    /\ LoopDone(idx[r], Len(nums[r]))
    /\ Raise(r, "IMAP4.error")
    /\ UNCHANGED <<conn, now, ticks, mailVars, recv, metrics, imapOpen,
                   logVars>>

\* imap.shutdown(); return found; probe() assigns recv1 or recv2 and goes on
RecvReturn(r) ==
    /\ pc[r] = "recv_shutdown"
    /\ imapOpen' = imapOpen \ {<<r, Leg(r)>>}
    /\ recv' = [recv EXCEPT ![r][Leg(r)] = <<found[r]>>]
    /\ trace' = [trace EXCEPT ![r] = Append(@, <<"shutdown", Leg(r)>>)]
    /\ nums' = [nums EXCEPT ![r] = <<>>]
    /\ idx' = [idx EXCEPT ![r] = 1]
    /\ found' = [found EXCEPT ![r] = FALSE]
    /\ Enter(r, call[r] + 1)
    /\ UNCHANGED <<conn, now, ticks, mailVars, metrics, err, sentlog,
                   expected, listing, examined, flagged, expunged>>

(* ------------------------------ send ----------------------------------- *)
\* the message text send() formats
ProbeHeaders(c, to, monitorhost, unixtime) ==
    <<Hdr("From", c.addr),
      Hdr("To", to),
      Hdr("X-TWM-Monitoring-Host", monitorhost),
      Hdr("X-TWM-Sender-Host", c.smtp),
      Hdr("X-TWM-Unixtime", FormatNumber(unixtime))>>

\* send(conn, to): SMTP session, login, sendmail; the session is closed
Send(r) ==
    /\ pc[r] = "send"
    /\ LET c == conn[Leg(r)]
           to == SendTo(Leg(r))
           m == [uid |-> nextUid,
                 hdrs |-> ProbeHeaders(c, to, Host("monitor"), now),
                 utf8 |-> TRUE]
       IN /\ transit' = transit \cup {[to |-> to, msg |-> m]}
          /\ sentlog' = [sentlog EXCEPT ![r] =
                            Append(@, [from |-> Leg(r), to |-> to,
                                       uid |-> nextUid])]
    /\ nextUid' = nextUid + 1
    /\ trace' = [trace EXCEPT ![r] = Append(@, <<"sendmail", Leg(r)>>)]
    /\ Enter(r, call[r] + 1)
    /\ UNCHANGED <<conn, now, ticks, mbox, deleted, nums, idx, found, recv,
                   metrics, err, imapOpen, expected, listing, examined,
                   flagged, expunged>>

\* SMTP(), starttls, login or sendmail raises
SendFail(r) ==
    /\ pc[r] = "send"
    /\ Raise(r, "SMTPException")
    /\ UNCHANGED <<conn, now, ticks, mailVars, recv, metrics, imapOpen,
                   logVars>>

\* probe() returns the two metrics
Return(r) ==
    /\ pc[r] = "return"
    /\ metrics' = [metrics EXCEPT ![r] =
                      <<[name |-> "recv1", value |-> recv[r][1][1]],
                        [name |-> "recv2", value |-> recv[r][2][1]]>>]
    /\ pc' = [pc EXCEPT ![r] = "done"]
    /\ UNCHANGED <<conn, now, ticks, mailVars, call, scanVars, recv, err,
                   imapOpen, logVars>>

(* --------------------------- environment ------------------------------- *)
\* The program observes its environment when a scan lists a mailbox and
\* when a pass of the loop reads the clock: the environment moves between
\* two runs, before a scan lists its mailbox and between two passes of a
\* scan's loop, and what it does after the last run is not observed.
Quiet == \A r \in Runs : Active(r) => pc[r] \in {"recv_open", "recv_loop"}
Pending == \E r \in Runs : pc[r] \notin {"done", "error"}

\* the mail system delivers a message to the mailbox of its recipient
Deliver(t) ==
    /\ t \in transit
    /\ Quiet
    /\ Pending
    /\ transit' = transit \ {t}
    /\ \E e \in Endpoints :
          /\ conn[e].addr = t.to
          /\ mbox' = [mbox EXCEPT ![e] = Append(@, t.msg)]
    /\ UNCHANGED <<conn, now, ticks, deleted, nextUid, pc, call, scanVars,
                   recv, metrics, err, imapOpen, logVars>>

\* time passes
Tick ==
    /\ ticks < MaxTicks
    /\ pc[1] # "idle"
    /\ Quiet
    /\ Pending
    /\ ticks' = ticks + 1
    /\ now' = now + TickStep
    /\ UNCHANGED <<conn, mailVars, pc, call, scanVars, recv, metrics, err,
                   imapOpen, logVars>>

Next ==
    \/ \E r \in Runs :
          \/ Start(r)
          \/ RecvOpen(r)
          \/ RecvOpenFail(r)
          \/ Examine(r)
          \/ FetchFail(r)
          \/ StoreFail(r)
          \/ RecvExpunge(r)
          \/ ExpungeFail(r)
          \/ RecvReturn(r)
          \/ Send(r)
          \/ SendFail(r)
          \/ Return(r)
    \/ \E t \in transit : Deliver(t)
    \/ Tick

Spec == Init /\ [][Next]_vars

\* one invocation of probe() on mailboxes with arbitrary content
ScanNext ==
    \/ \E r \in {1} :
          \/ Start(r)
          \/ RecvOpen(r)
          \/ RecvOpenFail(r)
          \/ Examine(r)
          \/ FetchFail(r)
          \/ StoreFail(r)
          \/ RecvExpunge(r)
          \/ ExpungeFail(r)
          \/ RecvReturn(r)
          \/ Send(r)
          \/ SendFail(r)
          \/ Return(r)
    \/ (Active(1) /\ Tick)

ScanSpec == ScanInit /\ [][ScanNext]_vars

\* the two scans of one invocation of probe(), up to its first send
RecvNext ==
    \/ \E r \in {1} :
          \/ Start(r)
          \/ RecvOpen(r)
          \/ RecvOpenFail(r)
          \/ Examine(r)
          \/ FetchFail(r)
          \/ StoreFail(r)
          \/ RecvExpunge(r)
          \/ ExpungeFail(r)
          \/ RecvReturn(r)
    \/ (Active(1) /\ Tick)

RecvSpec == ScanInit /\ [][RecvNext]_vars

\* one invocation of probe() on mailboxes holding probes stamped in the
\* future
FutureSpec == FutureInit /\ [][ScanNext]_vars

(* ------------------------- overlapping runs ---------------------------- *)
\* the probes of the cycle before, handed to SMTP at StartTime and still on
\* their way when the first run begins; the mailboxes are empty
OverlapInit ==
    /\ conn \in Configs
    /\ now = StartTime
    /\ ticks = 0
    /\ mbox = <<<<>>, <<>>>>
    /\ transit = {[to |-> SendTo(e),
                   msg |-> [uid |-> e,
                            hdrs |-> ProbeHeaders(conn[e], SendTo(e),
                                                  Host("monitor"), StartTime),
                            utf8 |-> TRUE]] : e \in Endpoints}
    /\ nextUid = 3
    /\ InitRuns

\* the scheduler invokes the check again while an earlier invocation is
\* still running
StartOverlap(r) ==
    /\ pc[r] = "idle"
    /\ \A q \in Runs : q < r => pc[q] # "idle"
    /\ Enter(r, 1)
    /\ UNCHANGED <<conn, now, ticks, mailVars, nums, idx, found, recv,
                   metrics, err, imapOpen, logVars>>

OverlapNext ==
    \/ \E r \in Runs :
          \/ StartOverlap(r)
          \/ RecvOpen(r)
          \/ RecvOpenFail(r)
          \/ Examine(r)
          \/ FetchFail(r)
          \/ StoreFail(r)
          \/ RecvExpunge(r)
          \/ ExpungeFail(r)
          \/ RecvReturn(r)
          \/ Send(r)
          \/ SendFail(r)
          \/ Return(r)
    \/ \E t \in transit : Deliver(t)

OverlapSpec == OverlapInit /\ [][OverlapNext]_vars

(* ======================================================================= *)
(* Properties                                                              *)
(* ======================================================================= *)
Scans == Runs \X Endpoints

\* scan k of run r has returned
ScanDone(r, k) == recv[r][k] # <<>>

\* what it returned
Result(r, k) == recv[r][k][1]

\* the messages scan k of run r was given
Listed(r, k) == {listing[r][k][i] : i \in 1..Len(listing[r][k])}

\* the message carries the sender-host header, and it names this sender
FromSender(m, s) ==
    /\ HasHeader(m, "x-twm-sender-host")
    /\ GetHeader(m, "x-twm-sender-host") = s

\* the message carries a unixtime header that is a number
HasTime(m) ==
    /\ HasHeader(m, "x-twm-unixtime")
    /\ Parseable(GetHeader(m, "x-twm-unixtime"))

\* the age of a message at time t
Age(m, t) == t - DigitsValue(GetHeader(m, "x-twm-unixtime"))

\* x is a message from the expected sender that was at most 1800 s old when
\* the scan looked at it
FreshMatch(x, s) ==
    /\ FromSender(x.msg, s)
    /\ HasTime(x.msg)
    /\ Age(x.msg, x.at) <= 1800

\* ... that was more than 1800 s old
StaleMatch(x, s) ==
    /\ FromSender(x.msg, s)
    /\ HasTime(x.msg)
    /\ Age(x.msg, x.at) > 1800

\* C1: a scan that completes has looked at every message of the listing and
\* returns true exactly if one of them is from the expected sender and at
\* most 1800 s old; on an empty mailbox it returns false and deletes nothing.
C1_ScanResult ==
    \A <<r, k>> \in Scans :
        ScanDone(r, k) =>
            /\ {x.msg : x \in examined[r][k]} = Listed(r, k)
            /\ Result(r, k) = (\E x \in examined[r][k] :
                                  FreshMatch(x, expected[r][k]))
            /\ Listed(r, k) = {} =>
                  /\ Result(r, k) = FALSE
                  /\ expunged[r][k] = {}
                  /\ flagged[r][k] = {}

\* a scan has returned true on a message exactly 1800 s old, and a scan of
\* an empty mailbox has returned
C1_Witness ==
    /\ \E <<r, k>> \in Scans :
          /\ ScanDone(r, k)
          /\ Result(r, k)
          /\ \E x \in examined[r][k] : FreshMatch(x, expected[r][k])
          /\ \A x \in examined[r][k] :
                FreshMatch(x, expected[r][k]) => Age(x.msg, x.at) = 1800
    /\ \E <<r, k>> \in Scans : ScanDone(r, k) /\ Listed(r, k) = {}

\* the sender-host header of the probes send() dispatches from endpoint e
EmbeddedSender(e) ==
    GetHeader([hdrs |-> ProbeHeaders(conn[e], SendTo(e), Host("monitor"), 0),
               utf8 |-> TRUE],
              "x-twm-sender-host")

\* the uids of the probes run r dispatched from endpoint e
SentFrom(r, e) ==
    {sentlog[r][i].uid : i \in {j \in 1..Len(sentlog[r]) : sentlog[r][j].from = e}}

\* the uids of the probes run r dispatched
SentBy(r) == SentFrom(r, 1) \cup SentFrom(r, 2)

\* C2: in both directions the sender a scan of endpoint k's mailbox expects
\* is the sender-host the counterpart's probes carry; hence a probe one run
\* sent, which the next run's scan of that mailbox finds at most 1800 s old,
\* makes that scan return true, and the run report it.
C2_ExpectedIsEmbedded ==
    /\ \A <<r, k>> \in Scans :
          expected[r][k] # <<>> => expected[r][k] = EmbeddedSender(Other(k))
    /\ \A <<r, k>> \in Scans :
          (/\ r > 1
           /\ ScanDone(r, k)
           /\ \E x \in examined[r][k] :
                 /\ x.msg.uid \in SentFrom(r - 1, Other(k))
                 /\ Age(x.msg, x.at) <= 1800)
          => /\ Result(r, k)
             /\ pc[r] = "done" => metrics[r][k].value

\* the positions in run r's trace of the operation op on endpoint k
Positions(r, op, k) ==
    {i \in 1..Len(trace[r]) : trace[r][i] = <<op, k>>}

\* C3: when a run sends a probe, both its scans have expunged and closed
\* before, and no scan of a run looks at a probe that run sent.
C3_ReconcileBeforeSend ==
    \A r \in Runs :
        /\ \A j \in 1..Len(trace[r]) :
              trace[r][j][1] = "sendmail" =>
                 \A k \in Endpoints :
                    /\ \E i \in Positions(r, "expunge", k) : i < j
                    /\ \E i \in Positions(r, "shutdown", k) : i < j
        /\ sentlog[r] # <<>> => ScanDone(r, 1) /\ ScanDone(r, 2)
        /\ \A k \in Endpoints :
              \A x \in examined[r][k] : x.msg.uid \notin SentBy(r)

\* a run has sent both probes after a scan in which it looked at a probe of
\* the run before
C3_Witness ==
    \E r \in Runs :
        /\ r > 1
        /\ Len(sentlog[r]) = 2
        /\ \E k \in Endpoints :
              \E x \in examined[r][k] : x.msg.uid \in SentBy(r - 1)

\* C4: a message whose sender-host is not the expected sender is not
\* flagged and not removed by the scan, and the scan returns what the other
\* messages alone make it return.
C4_MismatchUntouched ==
    \A <<r, k>> \in Scans :
        \A m \in Listed(r, k) :
            ~FromSender(m, expected[r][k]) =>
               /\ m.uid \notin flagged[r][k]
               /\ m.uid \notin expunged[r][k]
               /\ m.uid \notin deleted[k]
               /\ m.uid \in Uids(mbox[k])
               /\ ScanDone(r, k) =>
                     Result(r, k) =
                        (\E x \in {y \in examined[r][k] : y.msg # m} :
                            FreshMatch(x, expected[r][k]))

\* a scan has returned after looking at a recent probe of another sender
C4_Witness ==
    \E <<r, k>> \in Scans :
        /\ ScanDone(r, k)
        /\ \E x \in examined[r][k] :
              /\ HasHeader(x.msg, "x-twm-sender-host")
              /\ ~FromSender(x.msg, expected[r][k])
              /\ HasTime(x.msg)
              /\ Age(x.msg, x.at) <= 1800

\* C5: a scan that completes has removed every message of the expected
\* sender that was more than 1800 s old; if all messages of the expected
\* sender were that old it returns false; one such message, 2000 s old,
\* alone in the mailbox gives false and one deletion.
C5_StaleDeleted ==
    \A <<r, k>> \in Scans :
        ScanDone(r, k) =>
           /\ \A x \in examined[r][k] :
                 StaleMatch(x, expected[r][k]) =>
                    /\ x.msg.uid \in expunged[r][k]
                    /\ x.msg.uid \notin Uids(mbox[k])
           /\ (\A x \in examined[r][k] :
                  FromSender(x.msg, expected[r][k]) =>
                     StaleMatch(x, expected[r][k]))
              => Result(r, k) = FALSE
           /\ (/\ Len(listing[r][k]) = 1
               /\ \E x \in examined[r][k] :
                     StaleMatch(x, expected[r][k]) /\ Age(x.msg, x.at) = 2000)
              => Result(r, k) = FALSE /\ Cardinality(expunged[r][k]) = 1

\* a scan of a mailbox holding one message of the expected sender, 2000 s
\* old, has returned
C5_Witness ==
    \E <<r, k>> \in Scans :
        /\ ScanDone(r, k)
        /\ Len(listing[r][k]) = 1
        /\ \E x \in examined[r][k] :
              StaleMatch(x, expected[r][k]) /\ Age(x.msg, x.at) = 2000

\* the message carries neither correlation header
NoCorrelation(m) ==
    /\ ~HasHeader(m, "x-twm-sender-host")
    /\ ~HasHeader(m, "x-twm-unixtime")

\* C6: a message without the correlation headers is never flagged and is
\* still in the mailbox during and after every scan.
C6_NoHeadersUntouched ==
    \A <<r, k>> \in Scans :
        \A m \in Listed(r, k) :
            NoCorrelation(m) =>
               /\ m.uid \notin flagged[r][k]
               /\ m.uid \notin deleted[k]
               /\ m.uid \notin expunged[r][k]
               /\ m.uid \in Uids(mbox[k])

\* a scan that removed a message has passed over one without the headers
C6_Witness ==
    \E <<r, k>> \in Scans :
        /\ ScanDone(r, k)
        /\ expunged[r][k] # {}
        /\ \E x \in examined[r][k] : NoCorrelation(x.msg)

\* the message names the expected sender and carries no unixtime header
SenderOnly(m, s) == FromSender(m, s) /\ ~HasHeader(m, "x-twm-unixtime")

\* C7 as claimed: a message lacking either header is skipped; one with the
\* expected sender-host and no unixtime header stays in the mailbox,
\* unflagged.
C7_Original ==
    \A <<r, k>> \in Scans :
        \A x \in examined[r][k] :
            (\/ ~HasHeader(x.msg, "x-twm-sender-host")
             \/ ~HasHeader(x.msg, "x-twm-unixtime"))
            => /\ x.msg.uid \notin flagged[r][k]
               /\ x.msg.uid \in Uids(mbox[k])

\* C7 amended: a message is skipped when its sender-host header is missing
\* (or names another sender); one with the expected sender-host and no
\* unixtime header is handled as stale: the scan that completes has flagged
\* and removed it, and it does not make the scan return true.
C7_MissingTimeIsStale ==
    \A <<r, k>> \in Scans :
        /\ \A m \in Listed(r, k) :
              ~HasHeader(m, "x-twm-sender-host") =>
                 m.uid \notin flagged[r][k] /\ m.uid \in Uids(mbox[k])
        /\ ScanDone(r, k) =>
              /\ \A m \in Listed(r, k) :
                    SenderOnly(m, expected[r][k]) =>
                       /\ m.uid \in flagged[r][k]
                       /\ m.uid \in expunged[r][k]
                       /\ m.uid \notin Uids(mbox[k])
              /\ (\A m \in Listed(r, k) :
                     FromSender(m, expected[r][k]) =>
                        SenderOnly(m, expected[r][k]))
                 => Result(r, k) = FALSE

\* a scan has returned whose listing held a message with the expected
\* sender-host and no unixtime header
C7_Witness ==
    \E <<r, k>> \in Scans :
        /\ ScanDone(r, k)
        /\ \E m \in Listed(r, k) : SenderOnly(m, expected[r][k])

\* the listed messages of the expected sender that are at most 1800 s old
\* now, and so were when the scan looked at them
FreshNow(r, k) ==
    {m \in Listed(r, k) :
        /\ FromSender(m, expected[r][k])
        /\ HasTime(m)
        /\ Age(m, now) <= 1800}

\* C8: with two or more fresh messages of the expected sender in the
\* listing, the scan goes through all of them: it returns true and has
\* removed every one of them.
C8_AllMatchesDeleted ==
    \A <<r, k>> \in Scans :
        (ScanDone(r, k) /\ Cardinality(FreshNow(r, k)) >= 2) =>
           /\ Result(r, k) = TRUE
           /\ \A m \in FreshNow(r, k) :
                 /\ \E x \in examined[r][k] : x.msg = m
                 /\ m.uid \in expunged[r][k]
                 /\ m.uid \notin Uids(mbox[k])

\* a scan has returned whose listing held two fresh messages of the
\* expected sender
C8_Witness ==
    \E <<r, k>> \in Scans :
        ScanDone(r, k) /\ Cardinality(FreshNow(r, k)) >= 2

\* the exceptions of a failed IMAP or SMTP session
SessionErrors == {"IMAP4.error", "SMTPException"}

Ended(r) == pc[r] \in {"done", "error"}

\* C9: a run sends at most two probes; a run that has ended and in which no
\* session failed has sent exactly two, the first from endpoint 1 to
\* endpoint 2's address, the second from endpoint 2 to endpoint 1's.
C9_TwoSends ==
    \A r \in Runs :
        /\ Len(sentlog[r]) <= 2
        /\ (Ended(r) /\ err[r] \notin SessionErrors) =>
              /\ Len(sentlog[r]) = 2
              /\ sentlog[r][1].from = 1 /\ sentlog[r][1].to = conn[2].addr
              /\ sentlog[r][2].from = 2 /\ sentlog[r][2].to = conn[1].addr

\* C10: a run in which a session failed has ended in error and returned no
\* metrics; a run that has ended and in which no session failed has returned
\* the two booleans recv1 and recv2.
C10_ErrorsDistinct ==
    \A r \in Runs :
        /\ err[r] \in SessionErrors => pc[r] = "error" /\ metrics[r] = <<>>
        /\ (Ended(r) /\ err[r] \notin SessionErrors) =>
              /\ Len(metrics[r]) = 2
              /\ metrics[r][1].name = "recv1"
              /\ metrics[r][2].name = "recv2"
              /\ metrics[r][1].value \in BOOLEAN
              /\ metrics[r][2].value \in BOOLEAN

\* the exceptions raised by the content of a message
ContentErrors == {"ValueError", "UnicodeDecodeError"}

\* the call of probe() in which run r is, or in which it ended
InScan(r, k) ==
    /\ pc[r] # "idle"
    /\ call[r] <= Len(ProbeCalls)
    /\ ProbeCalls[call[r]] = [op |-> "checkrecv", c |-> k]

\* C11: whatever the mailbox holds, the scan classifies every message and
\* raises nothing: no run ends in an exception raised by the content of a
\* message.
C11_Total ==
    \A r \in Runs : err[r] \notin ContentErrors

\* C12 as claimed: when a scan has completed, every message of its listing
\* that is still in the mailbox carries no correlation header.
C12_Original ==
    \A <<r, k>> \in Scans :
        ScanDone(r, k) =>
           \A m \in Listed(r, k) :
               m.uid \in Uids(mbox[k]) => NoCorrelation(m)

\* C12 amended: when a scan has completed, the messages of its listing that
\* name the expected sender are gone, and the others, probes of other
\* senders included, are still in the mailbox.
C12_ExpectedSenderRemoved ==
    \A <<r, k>> \in Scans :
        ScanDone(r, k) =>
           \A m \in Listed(r, k) :
               m.uid \in Uids(mbox[k]) <=> ~FromSender(m, expected[r][k])

\* a scan has completed on a listing with two messages of the expected
\* sender, or with one and a probe of another sender
C12_Witness ==
    \E <<r, k>> \in Scans :
        /\ ScanDone(r, k)
        /\ Len(listing[r][k]) = 2
        /\ FromSender(listing[r][k][1], expected[r][k])
        /\ HasHeader(listing[r][k][2], "x-twm-sender-host")

\* C14: an IMAP session that is open belongs to a scan that is under way;
\* when the call has returned or raised, its session is closed.
C14_SessionsScoped ==
    \A <<r, k>> \in imapOpen :
        /\ pc[r] \in {"recv_loop", "recv_shutdown"}
        /\ Leg(r) = k

\* C15: a scan issues at most one expunge, after it has looked at its whole
\* listing; until then every message of the listing is still in the mailbox,
\* and a scan that ended in an exception has issued none and removed nothing.
C15_SingleExpunge ==
    \A <<r, k>> \in Scans :
        /\ Cardinality(Positions(r, "expunge", k)) <= 1
        /\ Positions(r, "expunge", k) # {} =>
              {x.msg : x \in examined[r][k]} = Listed(r, k)
        /\ Positions(r, "expunge", k) = {} =>
              /\ expunged[r][k] = {}
              /\ \A m \in Listed(r, k) : m.uid \in Uids(mbox[k])
        /\ (pc[r] = "error" /\ InScan(r, k)) =>
              Positions(r, "expunge", k) = {}

\* a scan has flagged a message and then ended in an exception
C15_Witness ==
    \E <<r, k>> \in Scans :
        /\ pc[r] = "error"
        /\ InScan(r, k)
        /\ flagged[r][k] # {}
        /\ Len(listing[r][k]) = 2

\* the uids of the messages scan k of run r counted as fresh
Counted(r, k) ==
    {x.msg.uid : x \in {y \in examined[r][k] : FreshMatch(y, expected[r][k])}}

\* C17: a probe that a completed scan counted as fresh is gone from the
\* mailbox, and no two completed scans have counted the same probe.
C17_CountedOnce ==
    \A <<r, k>> \in Scans :
        ScanDone(r, k) =>
           /\ \A u \in Counted(r, k) : u \notin Uids(mbox[k])
           /\ \A <<q, j>> \in Scans :
                 (ScanDone(q, j) /\ <<q, j>> # <<r, k>>) =>
                    Counted(r, k) \cap Counted(q, j) = {}

\* a scan has counted a probe, and the next run's scan of the same mailbox
\* has completed
C17_Witness ==
    \E k \in Endpoints :
        /\ ScanDone(1, k)
        /\ Counted(1, k) # {}
        /\ ScanDone(2, k)

\* x is a message of the expected sender stamped later than the time at which
\* the scan looked at it
FutureMatch(x, s) ==
    /\ FromSender(x.msg, s)
    /\ HasTime(x.msg)
    /\ Age(x.msg, x.at) < 0

\* C18: a message of the expected sender whose time stamp is later than the
\* scanner's clock counts as fresh: the scan that completes returns true and
\* has flagged and removed it.
C18_FutureIsFresh ==
    \A <<r, k>> \in Scans :
        ScanDone(r, k) =>
           \A x \in examined[r][k] :
               FutureMatch(x, expected[r][k]) =>
                  /\ Result(r, k) = TRUE
                  /\ x.msg.uid \in flagged[r][k]
                  /\ x.msg.uid \in expunged[r][k]
                  /\ x.msg.uid \notin Uids(mbox[k])

\* a scan has completed on a mailbox holding nothing but one message of the
\* expected sender stamped in the future
C18_Witness ==
    \E <<r, k>> \in Scans :
        /\ ScanDone(r, k)
        /\ Len(listing[r][k]) = 1
        /\ \E x \in examined[r][k] : FutureMatch(x, expected[r][k])

\* the number of probes the runs 1..r have dispatched
RECURSIVE SentCount(_)
SentCount(r) == IF r = 0 THEN 0 ELSE Len(sentlog[r]) + SentCount(r - 1)

\* the mailboxes were empty before the first run: every message is a probe
\* one of the runs dispatched
OwnProbesOnly == nextUid = 1 + SentCount(MaxRuns)

\* the runs up to r have returned, none has raised
ErrorFree(r) == \A q \in 1..r : pc[q] = "done"

\* C13: with no mail but the two endpoints' probes, at the end of a run
\* without errors a mailbox holds no probe that was there when the run
\* scanned it: what it holds was dispatched toward it since that scan.
C13_NoAccumulation ==
    \A <<r, k>> \in Scans :
        (OwnProbesOnly /\ ErrorFree(r)) =>
           \A m \in Listed(r, k) : m.uid \notin Uids(mbox[k])

\* scan j of run q is over: it has returned, or the run has raised
ScanOver(q, j) == ScanDone(q, j) \/ pc[q] = "error"

\* the scans that flagged the message u
Flaggers(u) == {s \in Scans : u \in flagged[s[1]][s[2]]}

\* the message u, which scan k of run r removed, was a probe of the expected
\* sender and at most 1800 s old at the time of that expunge (the clock does
\* not advance while runs overlap: that time is now)
FreshWhenRemoved(u, r, k) ==
    \E s \in Flaggers(u) :
       \E x \in examined[s[1]][s[2]] :
          /\ x.msg.uid = u
          /\ FreshMatch([msg |-> x.msg, at |-> now], expected[r][k])

\* C16: in overlapping runs, when a probe of the expected sender has been
\* removed from the mailbox while it was at most 1800 s old, one of the
\* scans that flagged it returns true.
C16_NoSilentRemoval ==
    \A <<r, k>> \in Scans :
        \A u \in expunged[r][k] :
            (/\ FreshWhenRemoved(u, r, k)
             /\ \A s \in Flaggers(u) : ScanOver(s[1], s[2]))
            => \E s \in Flaggers(u) :
                  ScanDone(s[1], s[2]) /\ Result(s[1], s[2])

====
